---------------------------- MODULE Spec2Model ----------------------------
(* A model of the CSM17 meeting assistant (src/app.py): the volume check,  *)
(* the analyze action with its candidate-model fallback loop, the section  *)
(* extractor, the session result fields, the audio save and the Slack send.*)
(*                                                                         *)
(* Texts are sequences of tokens.  A token is one character ("[", "]",     *)
(* "\n", " ") or an unbroken run of ordinary characters ("x", "foo", a     *)
(* section name).  Optional values (Python's None) are sequences of length *)
(* 0 (None) or 1 (a value).                                                *)
EXTENDS Integers, Sequences, FiniteSets, TLC

VARIABLES
    \* ---- the application (Spec)
    audio_val,      \* the recording widget's value: None or the recorded bytes
    now,            \* the wall clock, in ticks (TicksPerSecond to a second)
    disk,           \* recordings/: file name -> bytes written
    session_state,  \* st.session_state: a dict, key -> value
    pc,             \* where the script is: "idle", "loop", "after"
    idx,            \* position of the for loop in candidate_models
    full_result,    \* local of the analyze handler (None or text)
    last_error,     \* local of the analyze handler (None or exception)
    called,         \* history: the model names called by the current run
    outcomes,       \* history: what each of those calls did
    shown,          \* the message the last handler showed, with its error
    lastRaw,        \* history: raw response of the latest successful run
    uncaught,       \* None or the exception that left the last handler
    posted,         \* None or the payload of the last chat.postMessage call
    slack_token,    \* None or the bot token resolved at startup
    last,           \* name of the last user action
    \* ---- pure functions applied to drawn inputs
    text, label, extracted,     \* SpecExtract
    chan_in, chan_hist,         \* SpecChannel
    wav, rms_out                \* SpecVolume

appVars == <<audio_val, now, disk, session_state, pc, idx, full_result,
             last_error, called, outcomes, shown, lastRaw, uncaught,
             posted, slack_token, last>>
extractVars == <<text, label, extracted>>
channelVars == <<chan_in, chan_hist>>
volumeVars == <<wav, rms_out>>
vars == <<appVars, extractVars, channelVars, volumeVars>>

-----------------------------------------------------------------------------
(* Bounds of the model.                                                    *)
MaxClock == 3
TicksPerSecond == 2
MaxFrames == 2
MaxTextLen == 5
MaxChanLen == 3
MaxApply == 3

-----------------------------------------------------------------------------
(* Optional values.                                                        *)
None == << >>
Some(v) == <<v>>
IsNone(o) == Len(o) = 0
Get(o) == o[1]

SeqsUpTo(S, n) == UNION {[1..k -> S] : k \in 0..n}

-----------------------------------------------------------------------------
(* Volume check.                                                           *)

\* numpy int16 arithmetic: the result of an int16 operation modulo 2^16
Int16Modulus == 65536
Int16Half == 32768
wrap16(x) ==
    LET m == x % Int16Modulus
    IN IF m >= Int16Half THEN m - Int16Modulus ELSE m

\* audio_data**2 on an int16 array stays int16 (element-wise, wrapping)
SquareInt16(s) == wrap16(s * s)

RECURSIVE SumSeq(_)
SumSeq(q) == IF q = << >> THEN 0 ELSE q[1] + SumSeq(Tail(q))

\* A score is -1 (kind "neg1"), nan (kind "nan"), or sqrt(sumsq / n) with
\* sumsq >= 0 and n >= 1 (kind "rms").
ScoreNeg1 == [kind |-> "neg1", sumsq |-> 0, n |-> 1]
ScoreNaN == [kind |-> "nan", sumsq |-> 0, n |-> 1]
ScoreZero == [kind |-> "rms", sumsq |-> 0, n |-> 1]

\* np.sqrt(np.mean(a)): nan for a negative mean
SqrtMean(a) ==
    LET total == SumSeq(a)
    IN IF total < 0 THEN ScoreNaN
       ELSE [kind |-> "rms", sumsq |-> total, n |-> Len(a)]

\* A recording is [valid |-> whether wave.open and frombuffer accept the
\* bytes, frames |-> the int16 samples].
check_audio_volume(audio_bytes) ==
    IF ~audio_bytes.valid THEN ScoreNeg1
    ELSE IF Len(audio_bytes.frames) = 0 THEN ScoreZero
    ELSE SqrtMean([i \in 1..Len(audio_bytes.frames)
                       |-> SquareInt16(audio_bytes.frames[i])])

\* rms_val < k for a positive integer k; every comparison with nan is False
ScoreLT(score, k) ==
    CASE score.kind = "neg1" -> TRUE
      [] score.kind = "nan" -> FALSE
      [] OTHER -> score.sumsq < k * k * score.n

\* rms_val >= k for a positive integer k
ScoreGE(score, k) ==
    CASE score.kind = "neg1" -> FALSE
      [] score.kind = "nan" -> FALSE
      [] OTHER -> score.sumsq >= k * k * score.n

SilentThreshold == 5
QuietThreshold == 15

\* the banner under the recorder (st.error / st.warning / st.success)
VolumeBanner(rms_val) ==
    IF ScoreLT(rms_val, SilentThreshold) THEN "error_silence_detected"
    ELSE IF ScoreLT(rms_val, QuietThreshold) THEN "warning_very_quiet"
    ELSE "success_recorded"

\* a gate that takes the sentinel -1 for "no measurement" and lets it pass
BlockedWhenMeasuredQuiet(rms_val) ==
    rms_val.kind = "rms" /\ ScoreLT(rms_val, SilentThreshold)

\* the gate of the analyze button
AnalyzeBlockedWhen(rms_val) == ScoreLT(rms_val, SilentThreshold)

-----------------------------------------------------------------------------
(* Section extractor.                                                      *)

SectionThree == "3-Line Summary"
SectionTodo == "To-do List"
SectionDetailed == "Detailed Summary"
SectionNames == {SectionThree, SectionTodo, SectionDetailed}

IsSpace(c) == c \in {" ", "\n"}

\* str.strip()
RECURSIVE LStrip(_)
LStrip(s) == IF s # << >> /\ IsSpace(s[1]) THEN LStrip(Tail(s)) ELSE s
RECURSIVE RStrip(_)
RStrip(s) ==
    IF s # << >> /\ IsSpace(s[Len(s)]) THEN RStrip(SubSeq(s, 1, Len(s) - 1))
    ELSE s
Strip(s) == LStrip(RStrip(s))

\* "\[section_name\]" matches at position i
HeaderAt(t, section_name, i) ==
    /\ i + 2 <= Len(t)
    /\ t[i] = "["
    /\ t[i + 1] = section_name
    /\ t[i + 2] = "]"

\* the lookahead (?=\[|$) succeeds at position k: a "[" follows, or k is the
\* end of the string, or k is just before a newline that ends the string
LookaheadAt(t, k) ==
    \/ k = Len(t) + 1
    \/ k <= Len(t) /\ t[k] = "["
    \/ k = Len(t) /\ t[k] = "\n"

\* a greedy group (.*) ends at the last position where the lookahead
\* succeeds, which is the end of the string
GroupEndGreedy(t, j) == Len(t) + 1

\* where the group (.*?) that starts at j ends: lazy, so at the first
\* position where the lookahead succeeds (DOTALL: "." matches every token)
GroupEnd(t, j) == CHOOSE k \in j..(Len(t) + 1) :
    /\ LookaheadAt(t, k)
    /\ \A m \in j..(k - 1) : ~LookaheadAt(t, m)

\* re.search: the leftmost position where the pattern matches
extract_section(t, section_name) ==
    LET starts == {i \in 1..Len(t) : HeaderAt(t, section_name, i)}
    IN IF starts = {} THEN << >>
       ELSE LET i == CHOOSE x \in starts : \A y \in starts : x <= y
                j == i + 3
            IN Strip(SubSeq(t, j, GroupEnd(t, j) - 1))

-----------------------------------------------------------------------------
(* Channel normalization of send_to_slack.                                 *)

StartsWith(s, c) == Len(s) >= 1 /\ s[1] = c

\* a normalization that does not look at the first character
AlwaysPrependHash(channel) == <<"#">> \o channel

NormalizeChannel(channel) ==
    IF ~StartsWith(channel, "#") /\ ~StartsWith(channel, "C")
    THEN <<"#">> \o channel
    ELSE channel

-----------------------------------------------------------------------------
(* The application.                                                        *)

candidate_models == <<"models/gemini-2.0-flash", "models/gemini-flash-latest">>

\* channels of the select box, each written as a sequence of characters
target_channels == {<<"m", "n">>, <<"k", "1">>, <<"k", "2">>}

\* dict assignment d[k] = v
SetKey(d, k, v) == [x \in (DOMAIN d) \cup {k} |-> IF x = k THEN v ELSE d[x]]

\* datetime.now().strftime("%Y%m%d_%H%M%S"): the clock cut to whole seconds
Timestamp(t) == t \div TicksPerSecond

\* save_audio_file: the name it writes to, and the directory afterwards
SaveFilename(t) == <<"recordings/meeting_", Timestamp(t), ".wav">>
save_audio_file(d, audio_bytes, t) == SetKey(d, SaveFilename(t), audio_bytes)

\* Python truthiness of full_result (None and "" are false)
Truthy(o) == ~IsNone(o) /\ Get(o) # << >>

\* a loop that also ends when a call raises
BreaksLoopOrRaise(outcome) ==
    outcome.kind = "raise" \/ (outcome.kind = "text" /\ outcome.text # << >>)

\* `if full_result: break` after a call that returned; `continue` after one
\* that raised
BreaksLoop(outcome) == outcome.kind = "text" /\ outcome.text # << >>

\* a handler that keeps the first error instead of the latest
RecordFirstError(prev, e) == IF IsNone(prev) THEN Some(e) ELSE prev

\* `last_error = e` in the except branch
RecordError(prev, e) == Some(e)

\* a store that leaves the to-do field as it was
StoreResultsKeepTodo(st, raw) ==
    SetKey(SetKey(st,
        "res_three", extract_section(raw, SectionThree)),
        "res_detailed", extract_section(raw, SectionDetailed))

\* the three assignments to st.session_state
StoreResults(st, raw) ==
    SetKey(SetKey(SetKey(st,
        "res_three", extract_section(raw, SectionThree)),
        "res_todo", extract_section(raw, SectionTodo)),
        "res_detailed", extract_section(raw, SectionDetailed))

NoMessage == [msg |-> "none", error |-> None]
Exception(model_name, m) == [model |-> model_name, msg |-> m]

\* ---- inputs
AppFrames == {<< >>, <<3>>, <<5>>, <<100>>, <<200>>, <<256>>}
Recordings == {[valid |-> FALSE, frames |-> << >>]}
                  \cup {[valid |-> TRUE, frames |-> f] : f \in AppFrames}

ScenarioText == <<"[", SectionThree, "]", "\n", "foo", "\n",
                  "[", SectionTodo, "]", "\n", "bar", "\n",
                  "[", SectionDetailed, "]", "\n", "baz">>
Responses == {ScenarioText,
              <<"[", SectionThree, "]", " ", "x">>,
              <<"x">>}
ErrorMessages == {"quota", "network"}
CallOutcomes ==
    [kind : {"raise"}, text : {<< >>}, msg : ErrorMessages]
        \cup [kind : {"text"}, text : Responses \cup {<< >>}, msg : {""}]

PostOutcomes ==
    [kind : {"json"}, ok : {TRUE}, error : {""}]
        \cup [kind : {"json"}, ok : {FALSE},
              error : {"invalid_auth", "channel_not_found", "fatal_error"}]
        \cup [kind : {"raise"}, ok : {FALSE},
              error : {"ConnectionError", "JSONDecodeError"}]

\* ---- the pure-function variables, at rest
ExtractIdle == text = << >> /\ label = "" /\ extracted = None
ChannelIdle == chan_in = << >> /\ chan_hist = << >>
VolumeIdle == wav = [valid |-> FALSE, frames |-> << >>] /\ rms_out = None

AppInit ==
    /\ audio_val = None
    /\ now = 0
    /\ disk = << >>
    /\ session_state = << >>
    /\ pc = "idle"
    /\ idx = 1
    /\ full_result = None
    /\ last_error = None
    /\ called = << >>
    /\ outcomes = << >>
    /\ shown = NoMessage
    /\ lastRaw = None
    /\ uncaught = None
    /\ posted = None
    /\ slack_token \in {None, Some("xoxb")}
    /\ last = "start"

Init == AppInit /\ ExtractIdle /\ ChannelIdle /\ VolumeIdle

\* time passes; nothing else changes
Tick ==
    /\ now < MaxClock
    /\ now' = now + 1
    /\ UNCHANGED <<audio_val, disk, session_state, pc, idx, full_result,
                   last_error, called, outcomes, shown, lastRaw, uncaught,
                   posted, slack_token, last>>

\* the user records (or re-records): the script reruns, no button pressed
Record(r) ==
    /\ pc = "idle"
    /\ audio_val' = Some(r)
    /\ shown' = NoMessage
    /\ called' = << >>
    /\ outcomes' = << >>
    /\ uncaught' = None
    /\ posted' = None
    /\ last' = "record"
    /\ UNCHANGED <<now, disk, session_state, pc, idx, full_result,
                   last_error, lastRaw, slack_token>>

\* the analyze button: the gate, the save, and the entry into the loop
PressAnalyze ==
    /\ pc = "idle"
    /\ ~IsNone(audio_val)
    /\ LET audio_bytes == Get(audio_val)
           rms_val == check_audio_volume(audio_bytes)
       IN IF AnalyzeBlockedWhen(rms_val)
          THEN /\ shown' = [msg |-> "silent_cannot_analyze", error |-> None]
               /\ UNCHANGED <<disk, session_state, pc>>
          ELSE /\ disk' = save_audio_file(disk, audio_bytes, now)
               /\ session_state' =
                      SetKey(session_state, "saved_path", SaveFilename(now))
               /\ shown' = [msg |-> "saved", error |-> None]
               /\ pc' = "loop"
    /\ idx' = 1
    /\ full_result' = None
    /\ last_error' = None
    /\ called' = << >>
    /\ outcomes' = << >>
    /\ uncaught' = None
    /\ posted' = None
    /\ last' = "analyze"
    /\ UNCHANGED <<audio_val, now, lastRaw, slack_token>>

\* one iteration of `for model_name in candidate_models`
CallModel(outcome) ==
    /\ pc = "loop"
    /\ LET model_name == candidate_models[idx]
       IN /\ called' = Append(called, model_name)
          /\ outcomes' = Append(outcomes, outcome)
          /\ IF outcome.kind = "raise"
             THEN /\ last_error' =
                      RecordError(last_error, Exception(model_name, outcome.msg))
                  /\ UNCHANGED full_result
             ELSE /\ full_result' = Some(outcome.text)
                  /\ UNCHANGED last_error
    /\ IF BreaksLoop(outcome) \/ idx = Len(candidate_models)
       THEN pc' = "after" /\ UNCHANGED idx
       ELSE idx' = idx + 1 /\ UNCHANGED pc
    /\ UNCHANGED <<audio_val, now, disk, session_state, shown, lastRaw,
                   uncaught, posted, slack_token, last>>

\* after the loop: fail with last_error and stop, or parse and store
FinishAnalysis ==
    /\ pc = "after"
    /\ IF ~Truthy(full_result)
       THEN /\ shown' = [msg |-> "analysis_failed", error |-> last_error]
            /\ UNCHANGED <<session_state, lastRaw>>
       ELSE /\ session_state' = StoreResults(session_state, Get(full_result))
            /\ lastRaw' = full_result
            /\ shown' = [msg |-> "analysis_done", error |-> None]
    /\ pc' = "idle"
    /\ idx' = 1
    /\ full_result' = None
    /\ last_error' = None
    /\ UNCHANGED <<audio_val, now, disk, called, outcomes, uncaught, posted,
                   slack_token, last>>

\* send_to_slack: what it returns (None when it raises) and what it raises
SlackReturn(post) ==
    IF post.kind = "raise" THEN None
    ELSE Some([ok |-> post.ok, error |-> post.error])
SlackRaises(post) ==
    IF post.kind = "raise" THEN Some(Exception("slack", post.error)) ELSE None

\* the Slack button, shown once a result is stored
PressSlack(selected_channel, post) ==
    /\ pc = "idle"
    /\ "res_detailed" \in DOMAIN session_state
    /\ IF IsNone(slack_token)
       THEN /\ shown' = [msg |-> "no_slack_token", error |-> None]
            /\ posted' = None
            /\ uncaught' = None
       ELSE /\ posted' = Some([channel |-> NormalizeChannel(selected_channel),
                               three_line |-> session_state["res_three"],
                               todo |-> session_state["res_todo"],
                               detailed |-> session_state["res_detailed"]])
            /\ uncaught' = SlackRaises(post)
            /\ shown' =
                 IF IsNone(SlackReturn(post))
                 THEN [msg |-> "exception", error |-> SlackRaises(post)]
                 ELSE IF Get(SlackReturn(post)).ok
                 THEN [msg |-> "slack_sent", error |-> None]
                 ELSE [msg |-> "slack_failed",
                       error |-> Some(Exception("slack",
                                      Get(SlackReturn(post)).error))]
    /\ called' = << >>
    /\ outcomes' = << >>
    /\ last' = "slack"
    /\ UNCHANGED <<audio_val, now, disk, session_state, pc, idx, full_result,
                   last_error, lastRaw, slack_token>>

Next ==
    \/ Tick /\ UNCHANGED <<extractVars, channelVars, volumeVars>>
    \/ \E r \in Recordings :
           Record(r) /\ UNCHANGED <<extractVars, channelVars, volumeVars>>
    \/ PressAnalyze /\ UNCHANGED <<extractVars, channelVars, volumeVars>>
    \/ \E outcome \in CallOutcomes :
           CallModel(outcome)
               /\ UNCHANGED <<extractVars, channelVars, volumeVars>>
    \/ FinishAnalysis /\ UNCHANGED <<extractVars, channelVars, volumeVars>>
    \/ \E c \in target_channels, post \in PostOutcomes :
           PressSlack(c, post)
               /\ UNCHANGED <<extractVars, channelVars, volumeVars>>

Spec == Init /\ [][Next]_vars

-----------------------------------------------------------------------------
(* The pure functions, each applied to inputs drawn from a bounded set.    *)

\* the application, not started
AppRest == AppInit /\ IsNone(slack_token)

\* ---- extract_section
TextAlphabet == {"[", "]", SectionThree, SectionTodo, "x", "\n"}
Texts == SeqsUpTo(TextAlphabet, MaxTextLen) \cup Responses

ExtractInit ==
    /\ text \in Texts
    /\ label \in SectionNames
    /\ extracted = None
    /\ AppRest /\ ChannelIdle /\ VolumeIdle

ApplyExtract ==
    /\ IsNone(extracted)
    /\ extracted' = Some(extract_section(text, label))
    /\ UNCHANGED <<text, label, appVars, channelVars, volumeVars>>

SpecExtract == ExtractInit /\ [][ApplyExtract]_vars

\* ---- channel normalization
ChanAlphabet == {"#", "C", "g", "0"}

ChannelInit ==
    /\ chan_in \in SeqsUpTo(ChanAlphabet, MaxChanLen)
    /\ chan_hist = << >>
    /\ AppRest /\ ExtractIdle /\ VolumeIdle

\* normalize the channel, or the result of the previous normalization
ApplyNormalize ==
    /\ Len(chan_hist) < MaxApply
    /\ chan_hist' = Append(chan_hist,
           NormalizeChannel(IF chan_hist = << >> THEN chan_in
                            ELSE chan_hist[Len(chan_hist)]))
    /\ UNCHANGED <<chan_in, appVars, extractVars, volumeVars>>

SpecChannel == ChannelInit /\ [][ApplyNormalize]_vars

\* ---- check_audio_volume
SampleValues == {-32768, -182, -5, 0, 3, 4, 5, 181, 182, 200, 256, 32767}

VolumeInit ==
    /\ wav \in {[valid |-> FALSE, frames |-> << >>]}
           \cup {[valid |-> TRUE, frames |-> f] :
                     f \in SeqsUpTo(SampleValues, MaxFrames)}
    /\ rms_out = None
    /\ AppRest /\ ExtractIdle /\ ChannelIdle

ApplyVolume ==
    /\ IsNone(rms_out)
    /\ rms_out' = Some(check_audio_volume(wav))
    /\ UNCHANGED <<wav, appVars, extractVars, channelVars>>

SpecVolume == VolumeInit /\ [][ApplyVolume]_vars

-----------------------------------------------------------------------------
(* Properties.                                                             *)

\* an outcome that is a non-empty text
NonEmptyText(o) == o.kind = "text" /\ Len(o.text) > 0

\* the score of the current recording
CurrentScore == check_audio_volume(Get(audio_val))

\* C1: the fallback loop calls the candidates in list order, each at most
\* once; a call that returns a non-empty text is the last call of the run and
\* its text is the analysis result; a run without such a call goes through
\* the whole list (a candidate that raises only advances the loop).
C1_FallbackInOrder ==
    /\ Len(called) <= Len(candidate_models)
    /\ Len(outcomes) = Len(called)
    /\ \A k \in 1..Len(called) : called[k] = candidate_models[k]
    /\ pc = "loop" => /\ Len(called) < Len(candidate_models)
                      /\ \A k \in 1..Len(outcomes) : ~NonEmptyText(outcomes[k])
    /\ \A k \in 1..Len(outcomes) :
          NonEmptyText(outcomes[k]) =>
              /\ k = Len(outcomes)
              /\ pc = "after" => full_result = Some(outcomes[k].text)
              /\ pc = "idle" => /\ shown.msg = "analysis_done"
                                /\ lastRaw = Some(outcomes[k].text)
    /\ (pc # "loop" /\ last = "analyze" /\ shown.msg # "silent_cannot_analyze"
            /\ \A k \in 1..Len(outcomes) : ~NonEmptyText(outcomes[k]))
          => Len(called) = Len(candidate_models)

\* C1 witness: the first candidate raised, the second was then called and
\* returned a non-empty text, and the loop has ended with that text.
C1_Witness ==
    /\ pc = "after"
    /\ Len(outcomes) = 2
    /\ outcomes[1].kind = "raise"
    /\ NonEmptyText(outcomes[2])
    /\ full_result = Some(ScenarioText)

\* the error of the last call that raised, None when no call raised
RECURSIVE LastRaised(_, _)
LastRaised(outs, names) ==
    IF outs = << >> THEN None
    ELSE IF outs[Len(outs)].kind = "raise"
    THEN Some(Exception(names[Len(outs)], outs[Len(outs)].msg))
    ELSE LastRaised(SubSeq(outs, 1, Len(outs) - 1), names)

\* C2 as stated: a failed analysis surfaces the error recorded from the last
\* candidate in the list.
C2_ErrorOfLastCandidate ==
    shown.msg = "analysis_failed" =>
        LET n == Len(candidate_models)
        IN /\ Len(outcomes) = n
           /\ outcomes[n].kind = "raise"
           /\ shown.error = Some(Exception(candidate_models[n], outcomes[n].msg))

\* C2 as amended: a failed analysis follows a run through the whole list with
\* no non-empty text, and surfaces the most recently recorded error: that of
\* the last candidate that raised (the second's when both raise), None when
\* none raised.
C2_LastRecordedError ==
    shown.msg = "analysis_failed" =>
        /\ Len(outcomes) = Len(candidate_models)
        /\ \A k \in 1..Len(outcomes) : ~NonEmptyText(outcomes[k])
        /\ shown.error = LastRaised(outcomes, called)
        /\ (\A k \in 1..Len(outcomes) : outcomes[k].kind = "raise") =>
               shown.error = Some(Exception(candidate_models[Len(outcomes)],
                                            outcomes[Len(outcomes)].msg))

\* C2 witness: both candidates raised, with different errors, and the
\* analysis has failed.
C2_Witness ==
    /\ shown.msg = "analysis_failed"
    /\ Len(outcomes) = 2
    /\ outcomes[1].kind = "raise"
    /\ outcomes[2].kind = "raise"
    /\ outcomes[1].msg # outcomes[2].msg

\* C3 as stated: pressing analyze with a score below 5 shows the silent
\* message, calls no model and leaves the files and the session fields as
\* they were; the analysis is entered only with a score of at least 5.
C3_GateAtFive ==
    [][/\ (last' = "analyze" /\ ScoreLT(CurrentScore', SilentThreshold)) =>
              /\ shown'.msg = "silent_cannot_analyze"
              /\ pc' = "idle"
              /\ called' = << >>
              /\ disk' = disk
              /\ session_state' = session_state
       /\ (pc = "idle" /\ pc' = "loop") =>
              ScoreGE(CurrentScore', SilentThreshold)]_vars

\* the three result keys of the session
ResultKeys == {"res_three", "res_todo", "res_detailed"}

\* C4: the three result fields are all unset, or all three are the
\* extractions from the raw response of the latest successful run (the empty
\* string for a missing label); a failed run stores nothing.
C4_ResultsTogether ==
    /\ \/ /\ ResultKeys \cap DOMAIN session_state = {}
          /\ IsNone(lastRaw)
       \/ /\ ResultKeys \subseteq DOMAIN session_state
          /\ ~IsNone(lastRaw)
          /\ session_state["res_three"] = extract_section(Get(lastRaw), SectionThree)
          /\ session_state["res_todo"] = extract_section(Get(lastRaw), SectionTodo)
          /\ session_state["res_detailed"] =
                 extract_section(Get(lastRaw), SectionDetailed)
    /\ (pc = "idle" /\ last = "analyze" /\ shown.msg = "analysis_done") =>
           /\ outcomes # << >>
           /\ lastRaw = Some(outcomes[Len(outcomes)].text)

\* C4 witness: a run stored a response that lacks two labels over an earlier
\* result, and a later run has failed, leaving that result in place.
C4_Witness ==
    /\ pc = "idle"
    /\ shown.msg = "analysis_failed"
    /\ ResultKeys \subseteq DOMAIN session_state
    /\ session_state["res_three"] = <<"x">>
    /\ session_state["res_todo"] = << >>
    /\ session_state["res_detailed"] = << >>
    /\ Cardinality(DOMAIN disk) >= 2

\* C5 as stated: a decode failure (score -1) gets a banner other than the
\* silence banner, and pressing analyze then saves the audio and enters the
\* model calls.
C5_DecodeFailureProceeds ==
    (last = "analyze" /\ ~Get(audio_val).valid) =>
        /\ VolumeBanner(CurrentScore) # VolumeBanner(ScoreZero)
        /\ shown.msg # "silent_cannot_analyze"
        /\ "saved_path" \in DOMAIN session_state

\* C5 as amended: a decode failure (score -1) gets the silence banner, like
\* silence itself, and pressing analyze is then blocked: the silent message,
\* no save, no model call, session fields left as they were.
C5_DecodeFailureBlocks ==
    [][(last' = "analyze" /\ ~Get(audio_val').valid) =>
           /\ CurrentScore' = ScoreNeg1
           /\ VolumeBanner(CurrentScore') = "error_silence_detected"
           /\ shown'.msg = "silent_cannot_analyze"
           /\ pc' = "idle"
           /\ called' = << >>
           /\ disk' = disk
           /\ session_state' = session_state]_vars

\* C5 witness: analyze was pressed on a recording that does not decode.
C5_Witness ==
    /\ last = "analyze"
    /\ ~Get(audio_val).valid
    /\ shown.msg = "silent_cannot_analyze"

\* the exact sum of the squares of the samples, as high and low 16-bit parts
SumSquaresHigh(f) == SumSeq([i \in 1..Len(f) |-> (f[i] * f[i]) \div Int16Modulus])
SumSquaresLow(f) == SumSeq([i \in 1..Len(f) |-> (f[i] * f[i]) % Int16Modulus])

\* C6 as stated: for a valid buffer with at least one frame the score is a
\* number >= 0 whose square is the mean of the squares of the samples; for a
\* buffer with no frame it is exactly 0.
C6_TrueRms ==
    (~IsNone(rms_out) /\ wav.valid) =>
        LET score == Get(rms_out)
            f == wav.frames
        IN IF Len(f) = 0 THEN score = ScoreZero
           ELSE /\ score.kind = "rms"
                /\ score.n = Len(f)
                /\ (score.sumsq - SumSquaresLow(f)) % Int16Modulus = 0
                /\ (score.sumsq - SumSquaresLow(f)) \div Int16Modulus
                       = SumSquaresHigh(f)

\* a header in brackets starts at p: "[", then no bracket, then "]"
BracketedHeaderAt(t, p) ==
    /\ t[p] = "["
    /\ \E q \in (p + 1)..Len(t) :
          /\ t[q] = "]"
          /\ \A r \in (p + 1)..(q - 1) : t[r] \notin {"[", "]"}

\* the first position from j on that satisfies P, Len(t) + 1 when none does
FirstFrom(t, j, P(_, _)) ==
    LET hits == {k \in j..Len(t) : P(t, k)}
    IN IF hits = {} THEN Len(t) + 1
       ELSE CHOOSE k \in hits : \A m \in hits : k <= m

\* the first occurrence of the header [L], 0 when there is none
FirstHeader(t, L) ==
    LET hits == {i \in 1..(Len(t) - 2) : t[i] = "[" /\ t[i + 1] = L /\ t[i + 2] = "]"}
    IN IF hits = {} THEN 0 ELSE CHOOSE i \in hits : \A m \in hits : i <= m

BracketAt(t, p) == t[p] = "["

\* C7 as stated: the trimmed text between the first [L] and the next
\* bracketed header or the end of the string; empty when [L] does not occur.
C7_UpToNextHeader ==
    ~IsNone(extracted) =>
        LET i == FirstHeader(text, label)
        IN IF i = 0 THEN Get(extracted) = << >>
           ELSE Get(extracted) =
                  Strip(SubSeq(text, i + 3,
                               FirstFrom(text, i + 3, BracketedHeaderAt) - 1))

\* C7 as amended: the trimmed text between the first [L] and the next "["
\* (whether or not it opens a header) or the end of the string; empty when
\* [L] does not occur.
C7_UpToNextBracket ==
    ~IsNone(extracted) =>
        LET i == FirstHeader(text, label)
        IN IF i = 0 THEN Get(extracted) = << >>
           ELSE Get(extracted) =
                  Strip(SubSeq(text, i + 3,
                               FirstFrom(text, i + 3, BracketAt) - 1))

\* C7 witness: from the three-section response, the first section is the
\* text strictly between its header and the next one, over line breaks.
C7_Witness ==
    /\ text = ScenarioText
    /\ label = SectionThree
    /\ extracted = Some(<<"foo">>)

\* C8 as stated: the Slack send never ends in an exception: every failure is
\* a returned response that is shown to the user.
C8_SlackNeverRaises ==
    last = "slack" =>
        /\ IsNone(uncaught)
        /\ shown.msg \in {"no_slack_token", "slack_sent", "slack_failed"}

\* C9: normalizing a channel again changes nothing; a channel that starts
\* with "#" or "C" is returned as it is, any other gets one "#" in front.
C9_NormalizeIdempotent ==
    /\ \A k \in 1..Len(chan_hist) : chan_hist[k] = chan_hist[1]
    /\ Len(chan_hist) >= 1 =>
          IF chan_in # << >> /\ chan_in[1] \in {"#", "C"}
          THEN chan_hist[1] = chan_in
          ELSE /\ Len(chan_hist[1]) = Len(chan_in) + 1
               /\ chan_hist[1][1] = "#"
               /\ \A k \in 1..Len(chan_in) : chan_hist[1][k + 1] = chan_in[k]

\* C9 witness: a channel without a sigil was normalized twice.
C9_Witness ==
    /\ chan_in = <<"g", "0">>
    /\ Len(chan_hist) >= 2
    /\ chan_hist[2] = <<"#", "g", "0">>

\* C10 as stated: a save never writes to the name of a file saved before.
C10_SavesNeverCollide ==
    [][(pc = "idle" /\ pc' = "loop") =>
           session_state'["saved_path"] \notin DOMAIN disk]_vars

=============================================================================
